---- MODULE Spec2Model ----
(***************************************************************************)
(* Multi-agent task orchestration of Open_Manus_AI.                        *)
(*                                                                         *)
(* src/src/modules/enhanced_multi_agent.py: EnhancedAgent (one queue, one  *)
(* results dict, worker threads running _process_tasks) and                *)
(* MultiAgentSystem (registry, routing, task_assignments).                 *)
(* src/src/modules/multi_agent.py: the basic Agent / MultiAgentSystem.     *)
(*                                                                         *)
(* Python threads interleave between statements that touch shared state;   *)
(* every action below is one such statement group of one thread.           *)
(* Python dicts are functions whose DOMAIN is the key set; an insertion-   *)
(* ordered dict that is iterated (self.agents) is a sequence of            *)
(* [key, agent] records.  Strings that are searched for substrings are     *)
(* sequences of characters.  Time stamps are left out of the snapshots.    *)
(***************************************************************************)
EXTENDS Integers, Sequences, FiniteSets, TLC

(***************************************************************************)
(* Bounds of the model.                                                    *)
(***************************************************************************)
\* total number of MultiAgentSystem.assign_task calls in one behaviour
MaxAssign == 2
\* thread slots per agent: worker threads of one agent alive at the same time
MaxWorkers == 2
\* assign_task calls in one behaviour of SpecRoute
MaxRouted == 1

\* Python's None
None == "None"
\* agent.worker_thread = None: no thread slot
NoThread == 0

\* agent objects of enhanced_multi_agent.py (EnhancedAgent instances; agent.id
\* identifies the object)
AgentObjs == {"a1", "a2"}
\* agent objects of multi_agent.py (Agent instances): the three agents
\* MultiAgentSystem.__init__ creates, and one more for a later create_agent
BasicObjs == {"b1", "b2", "b3", "b4"}
\* the agent ids of multi_agent.py's registry
BasicKeys == {"research", "coding", "financial"}
\* the agent ids the callers of create_agent and remove_agent pass, and the
\* Agent instance the callers of create_agent pass
ManagedKeys == {"research"}
NewAgents == {"b4"}
\* client threads calling into the system
Clients == {"c1"}
\* task ids a caller may put in the task dict, and the ids uuid4 draws from
TaskIds == {"t1", "t2"}
\* worker thread slots of one agent
Slots == 1..MaxWorkers

(***************************************************************************)
(* Strings searched with Python's `in` are character sequences.            *)
(***************************************************************************)
Contains(s, kw) ==
    \E i \in 0..(Len(s) - Len(kw)) : SubSeq(s, i + 1, i + Len(kw)) = kw

KwFinancial == <<"f","i","n","a","n","c","i","a","l">>
KwCode == <<"c","o","d","e">>
KwProgramming == <<"p","r","o","g","r","a","m","m","i","n","g">>
KwResearch == <<"r","e","s","e","a","r","c","h">>
KwInformation == <<"i","n","f","o","r","m","a","t","i","o","n">>
KwTechnical == <<"t","e","c","h","n","i","c","a","l">>
KwFundamental == <<"f","u","n","d","a","m","e","n","t","a","l">>
KwScreen == <<"s","c","r","e","e","n">>
KwFinance == <<"f","i","n","a","n","c","e">>
KwStock == <<"s","t","o","c","k">>
KwInvestment == <<"i","n","v","e","s","t","m","e","n","t">>

\* str.lower(), over the capital letters the inputs of the model use
LowerChar(ch) == CASE ch = "C" -> "c" [] ch = "S" -> "s" [] OTHER -> ch

Lower(s) == [i \in 1..Len(s) |-> LowerChar(s[i])]

\* values of task['task_type'] the callers of the model use (<<>> is '')
TaskTypeInputs ==
    { <<>>,
      KwCode,
      <<"g","e","n","e","r","a","l">> \o <<" ">> \o KwResearch,
      KwTechnical }

\* values of task['type'] the callers of multi_agent.py use (<<>> is '' or no key)
BasicTypeInputs ==
    { <<>>,
      <<"C">> \o Tail(KwCode),
      <<"S">> \o Tail(KwStock) \o <<" ">> \o KwResearch,
      KwInvestment }

\* progress values an executor reports through update_progress
ProgressInputs == {30, 90}

VARIABLES
    agents,            \* MultiAgentSystem.agents: sequence of [key, agent]
    task_assignments,  \* MultiAgentSystem.task_assignments: task id -> agent key
    atype,             \* agent.type
    task_queue,        \* agent.task_queue: sequence of queued task entries
    results,           \* agent.results: task id -> snapshot
    running,           \* agent.running
    status,            \* agent.status
    worker_thread,     \* agent.worker_thread: slot of the last thread started, or NoThread
    threads,           \* the worker threads of each agent: slot -> [pc, task]
    client,            \* the client threads: where each is inside a call
    subs,              \* history: one record per assign_task call
    stopped            \* history: stop() has returned and start() was not called since

vars == <<agents, task_assignments, atype, task_queue, results, running, status,
          worker_thread, threads, client, subs, stopped>>

(***************************************************************************)
(* Dict helpers for the insertion-ordered self.agents.                     *)
(***************************************************************************)
Keys(d) == { d[i].key : i \in 1..Len(d) }

Lookup(d, k) == d[CHOOSE i \in 1..Len(d) : d[i].key = k].agent

\* d[k] = v : an existing key keeps its position, a new key is appended
DictSet(d, k, v) ==
    IF k \in Keys(d)
    THEN [i \in 1..Len(d) |-> IF d[i].key = k THEN [key |-> k, agent |-> v] ELSE d[i]]
    ELSE Append(d, [key |-> k, agent |-> v])

\* del d[k]
DictDel(d, k) ==
    LET F[i \in 0..Len(d)] ==
            IF i = 0 THEN <<>>
            ELSE IF d[i].key = k THEN F[i - 1] ELSE Append(F[i - 1], d[i])
    IN F[Len(d)]

(***************************************************************************)
(* Task snapshots (the values of agent.results).                           *)
(***************************************************************************)
\* the object is an EnhancedAgent (enhanced_multi_agent.py), not an Agent (multi_agent.py)
IsEnhanced(a) == a \notin BasicObjs

PendingSnapshot == [status |-> "pending", progress |-> 0]

ProcessingSnapshot == [status |-> "processing", progress |-> 0]

CompletedSnapshot(r) == [status |-> "completed", result |-> r, progress |-> 100]

\* the snapshots multi_agent.py's Agent writes: no progress
BasicPendingSnapshot == [status |-> "pending"]

BasicProcessingSnapshot == [status |-> "processing"]

BasicCompletedSnapshot(r) == [status |-> "completed", result |-> r]

\* mutant: the failed snapshot is written with a result key as well
FailedSnapshotWithResult(e) == [status |-> "failed", error |-> e, result |-> None]

FailedSnapshot(e) == [status |-> "failed", error |-> e]

\* the snapshot an agent object writes, by its class
Pending(a) == IF IsEnhanced(a) THEN PendingSnapshot ELSE BasicPendingSnapshot

Processing(a) == IF IsEnhanced(a) THEN ProcessingSnapshot ELSE BasicProcessingSnapshot

Completed(a, r) == IF IsEnhanced(a) THEN CompletedSnapshot(r) ELSE BasicCompletedSnapshot(r)

UnknownSnapshot == [status |-> "unknown"]

\* self.results.get(task_id, {'status': 'unknown'})
get_result(a, id) ==
    IF id \in DOMAIN results[a] THEN results[a][id] ELSE UnknownSnapshot

\* d[k] = v for a results dict
Put(d, k, v) == [x \in (DOMAIN d) \cup {k} |-> IF x = k THEN v ELSE d[x]]

\* queue entries: the task dict's id and the number of the assign_task call that
\* queued it (two entries with the same id are two entries)
NoTask == [id |-> None, n |-> 0]

\* history of a call: the arguments assign_task was called with (had_id: the task
\* dict had an 'id' key); kept by the calls of SpecRoute
NoArgs ==
    [had_id |-> FALSE, task_type |-> <<>>, symbol |-> FALSE, agent_type |-> None,
     agent_id |-> None]

\* the locals of a collaborative_task call of multi_agent.py (on: the thread is in
\* one): the subtasks not yet assigned, subtask_ids, the poll rounds slept, the index
\* of the for loop it is in, all_completed, subtask_results, and two history fields:
\* the number of subtasks the call started with, and whether every executor had
\* returned or raised when the latest poll round began; ret is what the call returned
NoCollab ==
    [on |-> FALSE, subtasks |-> <<>>, subtask_ids |-> <<>>, polls |-> 0, i |-> 0,
     all_completed |-> FALSE, subtask_results |-> <<>>, n |-> 0, ready |-> FALSE,
     ret |-> [status |-> None]]

\* a client thread: where it is (pc), and the locals of the call it is in: the agent
\* object, the agent's registry key, task['id'] of the caller's task dict, the call
\* number, the thread joined
IdleClient ==
    [pc |-> "idle", agent |-> None, key |-> None, id |-> None, n |-> 0, tid |-> NoThread,
     args |-> NoArgs, co |-> NoCollab]

DeadThread == [pc |-> "dead", task |-> NoTask]

\* the agent objects of the behaviour
Objs == DOMAIN running

\* a fresh MultiAgentSystem() and the freshly constructed agents S
InitWith(S) ==
    /\ agents = <<>>
    /\ task_assignments = <<>>
    /\ atype = [a \in S |-> IF a = "a1" THEN "research" ELSE "coding"]
    /\ task_queue = [a \in S |-> <<>>]
    /\ results = [a \in S |-> <<>>]
    /\ running = [a \in S |-> FALSE]
    /\ status = [a \in S |-> "initialized"]
    /\ worker_thread = [a \in S |-> NoThread]
    /\ threads = [a \in S |-> [t \in Slots |-> DeadThread]]
    /\ client = [c \in Clients |-> IdleClient]
    /\ subs = <<>>
    /\ stopped = [a \in S |-> FALSE]

Init == InitWith(AgentObjs)

\* one agent only
InitAgent == InitWith({"a1"})

(***************************************************************************)
(* MultiAgentSystem (enhanced_multi_agent.py): registry and routing.       *)
(***************************************************************************)
\* mutant: the last agent of the type instead of the first
get_agent_by_type_last(ags, ty) ==
    LET hits == { i \in 1..Len(ags) : atype[ags[i].agent] = ty }
    IN IF hits = {} THEN None
       ELSE ags[CHOOSE i \in hits : \A j \in hits : i >= j].agent

\* for agent in self.agents.values(): if agent.type == agent_type: return agent
get_agent_by_type(ags, ty) ==
    LET hits == { i \in 1..Len(ags) : atype[ags[i].agent] = ty }
    IN IF hits = {} THEN None
       ELSE ags[CHOOSE i \in hits : \A j \in hits : i <= j].agent

\* the keyword branch of assign_task (neither agent_id nor agent_type decides)
InferAgent(ags, task_type, symbol) ==
    LET general ==
            IF Contains(task_type, KwFinancial) \/ symbol
            THEN get_agent_by_type(ags, "financial")
            ELSE IF Contains(task_type, KwCode) \/ Contains(task_type, KwProgramming)
            THEN get_agent_by_type(ags, "coding")
            ELSE IF Contains(task_type, KwResearch) \/ Contains(task_type, KwInformation)
            THEN get_agent_by_type(ags, "research")
            ELSE None
    IN IF general # None THEN general
       ELSE IF Contains(task_type, KwTechnical)
       THEN get_agent_by_type(ags, "technical_analysis")
       ELSE IF Contains(task_type, KwFundamental)
       THEN get_agent_by_type(ags, "fundamental_analysis")
       ELSE IF Contains(task_type, KwScreen)
       THEN get_agent_by_type(ags, "stock_screener")
       ELSE None

\* mutant: no fallback to the first registered agent
RouteNoFallback(ags, task_type, symbol, agent_type, agent_id) ==
    IF agent_id # None /\ agent_id \in Keys(ags) THEN Lookup(ags, agent_id)
    ELSE IF agent_type # None THEN get_agent_by_type(ags, agent_type)
    ELSE InferAgent(ags, task_type, symbol)

\* the agent assign_task picks, or None
Route(ags, task_type, symbol, agent_type, agent_id) ==
    LET found ==
            IF agent_id # None /\ agent_id \in Keys(ags) THEN Lookup(ags, agent_id)
            ELSE IF agent_type # None THEN get_agent_by_type(ags, agent_type)
            ELSE InferAgent(ags, task_type, symbol)
    IN IF found = None /\ ags # <<>> THEN ags[1].agent ELSE found

\* MultiAgentSystem.get_task_result
get_task_result(id) ==
    IF id \notin DOMAIN task_assignments
    THEN [status |-> "unknown", error |-> "Task ID not found"]
    ELSE IF task_assignments[id] \notin Keys(agents)
    THEN [status |-> "error", error |-> "Agent not found"]
    ELSE get_result(Lookup(agents, task_assignments[id]), id)

\* EnhancedAgent.get_status: the queue depth and the number of results entries that
\* are 'pending' or 'processing' (without id, name, type, status and progress)
get_status(a) ==
    [queue_size |-> Len(task_queue[a]),
     active_tasks |-> Cardinality({ id \in DOMAIN results[a] :
                            results[a][id].status \in {"pending", "processing"} })]

\* MultiAgentSystem.get_system_status (without the list of the agents' get_status())
get_system_status ==
    [agent_count |-> Len(agents),
     active_tasks |-> Cardinality(DOMAIN task_assignments)]

\* ids uuid4 can still return: the ids no dict or queue holds yet
UsedIds ==
    (DOMAIN task_assignments)
    \cup UNION { DOMAIN results[a] : a \in Objs }
    \cup { subs[k].id : k \in 1..Len(subs) }

RegisterAgent(c, a) ==
    /\ client[c].pc = "idle"
    /\ agents' = DictSet(agents, a, a)
    /\ UNCHANGED <<task_assignments, atype, task_queue, results, running, status,
                   worker_thread, threads, client, subs, stopped>>

(***************************************************************************)
(* EnhancedAgent.start / stop.                                             *)
(***************************************************************************)
LiveSlots(a) == { t \in Slots : threads[a][t].pc # "dead" }

FreeSlot(a) == CHOOSE t \in Slots \ LiveSlots(a) : \A u \in Slots \ LiveSlots(a) : t <= u

\* agent.start()
StartBody(a) ==
    /\ IF ~running[a]
       THEN /\ Slots \ LiveSlots(a) # {}
            /\ running' = [running EXCEPT ![a] = TRUE]
            /\ status' = [status EXCEPT ![a] = IF IsEnhanced(a) THEN "running" ELSE @]
            /\ worker_thread' = [worker_thread EXCEPT ![a] = FreeSlot(a)]
            /\ threads' = [threads EXCEPT ![a][FreeSlot(a)] = [pc |-> "loop", task |-> NoTask]]
       ELSE UNCHANGED <<running, status, worker_thread, threads>>
    /\ stopped' = [stopped EXCEPT ![a] = FALSE]

Start(c, a) ==
    /\ client[c].pc = "idle"
    /\ StartBody(a)
    /\ UNCHANGED <<agents, task_assignments, atype, task_queue, results, client, subs>>

\* a thread that can stay where it is for longer than the join timeout:
\* inside _execute_task, or inside task_queue.get() on an empty queue
Blocked(a, t) ==
    \/ threads[a][t].pc = "exec"
    \/ threads[a][t].pc = "get" /\ task_queue[a] = <<>>

\* stop() has to wait in self.worker_thread.join(timeout=2.0)
StopJoins(a) ==
    running[a] /\ worker_thread[a] # NoThread /\ threads[a][worker_thread[a]].pc # "dead"

\* agent.stop() called by client c; key is the registry key remove_agent deletes
\* once stop() has returned, None for a plain stop()
StopBody(c, a, key) ==
    /\ IF running[a]
       THEN /\ running' = [running EXCEPT ![a] = FALSE]
            /\ status' = [status EXCEPT ![a] = IF IsEnhanced(a) THEN "stopped" ELSE @]
            /\ IF StopJoins(a)
               THEN /\ client' = [client EXCEPT ![c] =
                            [pc |-> "join", agent |-> a, key |-> key, id |-> None, n |-> 0,
                             tid |-> worker_thread[a], args |-> NoArgs, co |-> NoCollab]]
                    /\ UNCHANGED stopped
               ELSE /\ stopped' = [stopped EXCEPT ![a] = TRUE]
                    /\ UNCHANGED client
       ELSE /\ stopped' = [stopped EXCEPT ![a] = TRUE]
            /\ UNCHANGED <<running, status, client>>

Stop(c, a) ==
    /\ client[c].pc = "idle"
    /\ StopBody(c, a, None)
    /\ UNCHANGED <<agents, task_assignments, atype, task_queue, results,
                   worker_thread, threads, subs>>

\* the caller of stop() once join has returned: back in remove_agent, in front of
\* del self.agents[agent_id], or done
AfterJoin(cl) ==
    IF cl.key = None THEN IdleClient
    ELSE [IdleClient EXCEPT !.pc = "del", !.agent = cl.agent, !.key = cl.key]

\* self.worker_thread.join(timeout=2.0) gives up
JoinTimeout(c) ==
    /\ client[c].pc = "join"
    /\ Blocked(client[c].agent, client[c].tid)
    /\ client' = [client EXCEPT ![c] = AfterJoin(client[c])]
    /\ stopped' = [stopped EXCEPT ![client[c].agent] = TRUE]
    /\ UNCHANGED <<agents, task_assignments, atype, task_queue, results, running,
                   status, worker_thread, threads, subs>>

(***************************************************************************)
(* MultiAgentSystem.assign_task, with EnhancedAgent.assign_task inlined.   *)
(* Three steps of the calling thread: the queue put, the initial results   *)
(* write, the task_assignments write (followed by the return).             *)
(***************************************************************************)
\* the calls whose assign_task has returned a task id
Returned == { k \in 1..Len(subs) : subs[k].ret }

\* mutant: the assignment is recorded under agent.type instead of agent.id
AssignmentKeyByType(a) == atype[a]

\* the key task_assignments records for the agent: agent.id
AssignmentKey(a) == a

NewSub(a, id) ==
    [agent |-> a, id |-> id, before |-> Returned, ret |-> FALSE, st |-> "queued",
     ok |-> FALSE]

\* lines 1037-1077 and 71-77: id (the task dict's own or a fresh uuid4, written to
\* task['id']), routing, and either the way to `return None` or task_queue.put(task)
AssignCall(c, id, task_type, symbol, agent_type, agent_id, args) ==
    LET a == Route(agents, task_type, symbol, agent_type, agent_id)
        n == Len(subs) + 1
    IN /\ client[c].pc = "idle"
       /\ IF a = None
          THEN /\ client' = [client EXCEPT ![c] =
                       [IdleClient EXCEPT !.pc = "none", !.id = id, !.args = args]]
               /\ UNCHANGED <<task_queue, subs>>
          ELSE /\ task_queue' = [task_queue EXCEPT ![a] = Append(@, [id |-> id, n |-> n])]
               /\ client' = [client EXCEPT ![c] =
                       [pc |-> "put", agent |-> a, key |-> AssignmentKey(a), id |-> id,
                        n |-> n, tid |-> NoThread, args |-> args, co |-> NoCollab]]
               /\ subs' = Append(subs, NewSub(a, id))
       /\ UNCHANGED <<agents, task_assignments, atype, results, running, status,
                      worker_thread, threads, stopped>>

AssignPut(c, id, task_type, symbol, agent_type, agent_id) ==
    /\ Len(subs) < MaxAssign
    /\ AssignCall(c, id, task_type, symbol, agent_type, agent_id, NoArgs)

\* lines 1072-1074: no agent; return None
AssignFail(c) ==
    /\ client[c].pc = "none"
    /\ client' = [client EXCEPT ![c] = IdleClient]
    /\ UNCHANGED <<agents, task_assignments, atype, task_queue, results, running,
                   status, worker_thread, threads, subs, stopped>>

\* the task dict carries an id
AssignWithId(c) ==
    \E id \in TaskIds, task_type \in TaskTypeInputs, symbol \in {FALSE},
       agent_type \in {None, "research", "coding"}, agent_id \in {None} \cup AgentObjs :
        AssignPut(c, id, task_type, symbol, agent_type, agent_id)

\* the task dict carries none: task['id'] = str(uuid.uuid4())
AssignNoId(c) ==
    \E id \in TaskIds \ UsedIds, task_type \in TaskTypeInputs, symbol \in {FALSE},
       agent_type \in {None, "research", "coding"}, agent_id \in {None} \cup AgentObjs :
        AssignPut(c, id, task_type, symbol, agent_type, agent_id)

\* lines 78-82: self.results[task_id] = {'status': 'pending', 'progress': 0, ...}
AssignResults(c) ==
    /\ client[c].pc = "put"
    /\ results' = [results EXCEPT ![client[c].agent] = Put(@, client[c].id, Pending(client[c].agent))]
    /\ client' = [client EXCEPT ![c].pc = "rec"]
    /\ UNCHANGED <<agents, task_assignments, atype, task_queue, running, status,
                   worker_thread, threads, subs, stopped>>

\* multi_agent.py's collaborative_task after assign_task returned task_id for the
\* first of its subtasks: if task_id: subtask_ids.append(task_id), and on to the next
CollabAssigned(co, task_id) ==
    [IdleClient EXCEPT !.pc = "co_assign",
        !.co = [co EXCEPT !.subtasks = Tail(@),
                          !.subtask_ids = IF task_id = None THEN @ ELSE Append(@, task_id)]]

\* where assign_task returns to: its caller, or the collaborative_task that called it
AssignReturn(cl, task_id) ==
    IF cl.co.on THEN CollabAssigned(cl.co, task_id) ELSE IdleClient

\* lines 1080-1083: self.task_assignments[task_id] = agent.id; return task_id
AssignRecord(c) ==
    /\ client[c].pc = "rec"
    /\ task_assignments' = Put(task_assignments, client[c].id, client[c].key)
    /\ subs' = [subs EXCEPT ![client[c].n].ret = TRUE]
    /\ client' = [client EXCEPT ![c] = AssignReturn(client[c], client[c].id)]
    /\ UNCHANGED <<agents, atype, task_queue, results, running, status,
                   worker_thread, threads, stopped>>

(***************************************************************************)
(* EnhancedAgent._process_tasks: one worker thread t of agent a.           *)
(***************************************************************************)
\* while self.running: if not self.task_queue.empty(): ... else: time.sleep(0.1)
WorkerLoop(a, t) ==
    /\ threads[a][t].pc = "loop"
    /\ IF ~running[a]
       THEN \* the loop ends, the thread dies, and every join on it returns
            /\ threads' = [threads EXCEPT ![a][t] = DeadThread]
            /\ client' = [c \in DOMAIN client |->
                    IF client[c].pc = "join" /\ client[c].agent = a /\ client[c].tid = t
                    THEN AfterJoin(client[c]) ELSE client[c]]
            /\ stopped' = [stopped EXCEPT ![a] =
                    @ \/ \E c \in DOMAIN client :
                            client[c].pc = "join" /\ client[c].agent = a /\ client[c].tid = t]
       ELSE /\ threads' = [threads EXCEPT ![a][t].pc =
                    IF task_queue[a] # <<>> THEN "get" ELSE "loop"]
            /\ UNCHANGED <<client, stopped>>
    /\ UNCHANGED <<agents, task_assignments, atype, task_queue, results, running,
                   status, worker_thread, subs>>

\* mutant: the worker reads the head of the queue and leaves it there
WorkerGetPeek(a, t) ==
    /\ threads[a][t].pc = "get"
    /\ task_queue[a] # <<>>
    /\ threads' = [threads EXCEPT ![a][t] = [pc |-> "mark", task |-> Head(task_queue[a])]]
    /\ UNCHANGED <<agents, task_assignments, atype, task_queue, results, running, status,
                   worker_thread, client, subs, stopped>>

\* task = self.task_queue.get(): blocks while the queue is empty
WorkerGet(a, t) ==
    /\ threads[a][t].pc = "get"
    /\ task_queue[a] # <<>>
    /\ threads' = [threads EXCEPT ![a][t] = [pc |-> "mark", task |-> Head(task_queue[a])]]
    /\ task_queue' = [task_queue EXCEPT ![a] = Tail(@)]
    /\ UNCHANGED <<agents, task_assignments, atype, results, running, status,
                   worker_thread, client, subs, stopped>>

\* lines 141-146: self.results[task['id']] = {'status': 'processing', 'progress': 0, ...}
WorkerMark(a, t) ==
    /\ threads[a][t].pc = "mark"
    /\ results' = [results EXCEPT ![a] = Put(@, threads[a][t].task.id, Processing(a))]
    /\ subs' = [subs EXCEPT ![threads[a][t].task.n].st = "processing"]
    /\ threads' = [threads EXCEPT ![a][t].pc = "exec"]
    /\ UNCHANGED <<agents, task_assignments, atype, task_queue, running, status,
                   worker_thread, client, stopped>>

\* update_progress(task_id, progress, status_message) on a results dict
update_progress(res, task_id, progress, status_message) ==
    IF task_id \in DOMAIN res
    THEN LET withProgress == Put(res[task_id], "progress", progress)
         IN Put(res, task_id,
                IF status_message # None
                THEN Put(withProgress, "status_message", status_message)
                ELSE withProgress)
    ELSE res

\* the executor, inside _execute_task, calls self.update_progress
ExecUpdateProgress(a, t) ==
    /\ IsEnhanced(a)
    /\ threads[a][t].pc = "exec"
    /\ \E p \in ProgressInputs, m \in {"msg"} :
            results' = [results EXCEPT ![a] = update_progress(@, threads[a][t].task.id, p, m)]
    /\ UNCHANGED <<agents, task_assignments, atype, task_queue, running, status,
                   worker_thread, threads, client, subs, stopped>>

\* _execute_task returns: lines 152-157
ExecReturn(a, t) ==
    /\ threads[a][t].pc = "exec"
    /\ results' = [results EXCEPT ![a] = Put(@, threads[a][t].task.id, Completed(a, "res"))]
    /\ subs' = [subs EXCEPT ![threads[a][t].task.n].st = "done",
                            ![threads[a][t].task.n].ok = TRUE]
    /\ threads' = [threads EXCEPT ![a][t] = [pc |-> "loop", task |-> NoTask]]
    /\ UNCHANGED <<agents, task_assignments, atype, task_queue, running, status,
                   worker_thread, client, stopped>>

\* mutant: the exception of the executor ends the worker thread
ExecRaiseDies(a, t) ==
    /\ threads[a][t].pc = "exec"
    /\ results' = [results EXCEPT ![a] = Put(@, threads[a][t].task.id, FailedSnapshot("err"))]
    /\ subs' = [subs EXCEPT ![threads[a][t].task.n].st = "done"]
    /\ threads' = [threads EXCEPT ![a][t] = DeadThread]
    /\ UNCHANGED <<agents, task_assignments, atype, task_queue, running, status,
                   worker_thread, client, stopped>>

\* _execute_task raises: lines 161-167
ExecRaise(a, t) ==
    /\ threads[a][t].pc = "exec"
    /\ results' = [results EXCEPT ![a] = Put(@, threads[a][t].task.id, FailedSnapshot("err"))]
    /\ subs' = [subs EXCEPT ![threads[a][t].task.n].st = "done"]
    /\ threads' = [threads EXCEPT ![a][t] = [pc |-> "loop", task |-> NoTask]]
    /\ UNCHANGED <<agents, task_assignments, atype, task_queue, running, status,
                   worker_thread, client, stopped>>

Next ==
    \/ \E c \in Clients, a \in Objs : RegisterAgent(c, a)
    \/ \E c \in Clients, a \in Objs : Start(c, a)
    \/ \E c \in Clients, a \in Objs : Stop(c, a)
    \/ \E c \in Clients : JoinTimeout(c)
    \/ \E c \in Clients : AssignWithId(c)
    \/ \E c \in Clients : AssignNoId(c)
    \/ \E c \in Clients : AssignFail(c)
    \/ \E c \in Clients : AssignResults(c)
    \/ \E c \in Clients : AssignRecord(c)
    \/ \E a \in Objs, t \in Slots : WorkerLoop(a, t)
    \/ \E a \in Objs, t \in Slots : WorkerGet(a, t)
    \/ \E a \in Objs, t \in Slots : WorkerMark(a, t)
    \/ \E a \in Objs, t \in Slots : ExecUpdateProgress(a, t)
    \/ \E a \in Objs, t \in Slots : ExecReturn(a, t)
    \/ \E a \in Objs, t \in Slots : ExecRaise(a, t)

Spec == Init /\ [][Next]_vars

SpecAgent == InitAgent /\ [][Next]_vars

(***************************************************************************)
(* The system in service: every agent registered and started             *)
(* (register_agent for each agent, then start_all_agents), and from then   *)
(* on only assign_task calls and the worker loops.                         *)
(*  A worker thread that can take a step eventually takes    *)
(* it, an executor eventually returns or raises, and a call in progress    *)
(* eventually continues.                                                   *)
(***************************************************************************)
InitLive ==
    /\ agents = <<[key |-> "a1", agent |-> "a1"], [key |-> "a2", agent |-> "a2"]>>
    /\ task_assignments = <<>>
    /\ atype = [a \in AgentObjs |-> IF a = "a1" THEN "research" ELSE "coding"]
    /\ task_queue = [a \in AgentObjs |-> <<>>]
    /\ results = [a \in AgentObjs |-> <<>>]
    /\ running = [a \in AgentObjs |-> TRUE]
    /\ status = [a \in AgentObjs |-> "running"]
    /\ worker_thread = [a \in AgentObjs |-> 1]
    /\ threads = [a \in AgentObjs |->
            [t \in Slots |-> IF t = 1 THEN [pc |-> "loop", task |-> NoTask] ELSE DeadThread]]
    /\ client = [c \in Clients |-> IdleClient]
    /\ subs = <<>>
    /\ stopped = [a \in AgentObjs |-> FALSE]

WorkerStep(a, t) ==
    \/ WorkerLoop(a, t)
    \/ WorkerGet(a, t)
    \/ WorkerMark(a, t)
    \/ ExecReturn(a, t)
    \/ ExecRaise(a, t)

CallStep(c) == AssignResults(c) \/ AssignRecord(c)

NextLive ==
    \/ \E c \in Clients : AssignWithId(c)
    \/ \E c \in Clients : AssignNoId(c)
    \/ \E c \in Clients : CallStep(c)
    \/ \E a \in Objs, t \in Slots : WorkerStep(a, t)
    \/ \E a \in Objs, t \in Slots : ExecUpdateProgress(a, t)

SpecLive ==
    /\ InitLive
    /\ [][NextLive]_vars
    /\ \A c \in Clients : WF_vars(CallStep(c))
    /\ \A a \in AgentObjs, t \in Slots : WF_vars(WorkerStep(a, t))

(***************************************************************************)
(* multi_agent.py: the basic MultiAgentSystem.  Its registry is keyed by   *)
(* the agent_id the caller chooses; its Agent has the worker loop, start   *)
(* and stop of EnhancedAgent without status and progress.                  *)
(***************************************************************************)
\* MultiAgentSystem.__init__: the research, coding and financial agents created
\* and started; one more Agent constructed by the caller and not yet added; C are
\* the threads that call the system
InitBasicWith(C) ==
    /\ agents = <<[key |-> "research", agent |-> "b1"], [key |-> "coding", agent |-> "b2"],
                  [key |-> "financial", agent |-> "b3"]>>
    /\ task_assignments = <<>>
    /\ atype = [a \in BasicObjs |->
            CASE a = "b2" -> "coding" [] a = "b3" -> "financial" [] OTHER -> "research"]
    /\ task_queue = [a \in BasicObjs |-> <<>>]
    /\ results = [a \in BasicObjs |-> <<>>]
    /\ running = [a \in BasicObjs |-> a # "b4"]
    /\ status = [a \in BasicObjs |-> None]
    /\ worker_thread = [a \in BasicObjs |-> IF a # "b4" THEN 1 ELSE NoThread]
    /\ threads = [a \in BasicObjs |->
            [t \in Slots |->
                IF a # "b4" /\ t = 1 THEN [pc |-> "loop", task |-> NoTask] ELSE DeadThread]]
    /\ client = [c \in C |-> IdleClient]
    /\ subs = <<>>
    /\ stopped = [a \in BasicObjs |-> FALSE]

InitBasic == InitBasicWith(Clients)

\* self.agents[agent_id] = agent; agent.start()
CreateAgent(c, key, a) ==
    /\ client[c].pc = "idle"
    /\ agents' = DictSet(agents, key, a)
    /\ StartBody(a)
    /\ UNCHANGED <<task_assignments, atype, task_queue, results, client, subs>>

\* remove_agent up to the return of stop(): when stop() does not have to join, the
\* del follows at once
RemoveAgent(c, key) ==
    /\ client[c].pc = "idle"
    /\ IF key \in Keys(agents)
       THEN /\ StopBody(c, Lookup(agents, key), key)
            /\ agents' = IF StopJoins(Lookup(agents, key)) THEN agents ELSE DictDel(agents, key)
       ELSE UNCHANGED <<agents, running, status, client, stopped>>
    /\ UNCHANGED <<task_assignments, atype, task_queue, results, worker_thread, threads, subs>>

\* remove_agent after stop() returned: del self.agents[agent_id]
RemoveDel(c) ==
    /\ client[c].pc = "del"
    /\ agents' = DictDel(agents, client[c].key)
    /\ client' = [client EXCEPT ![c] = IdleClient]
    /\ UNCHANGED <<task_assignments, atype, task_queue, results, running, status,
                   worker_thread, threads, subs, stopped>>

\* the registry key _determine_best_agent returns for task['type']
determine_best_agent(ty) ==
    LET task_type == Lower(ty)
    IN IF Contains(task_type, KwCode) \/ Contains(task_type, KwProgramming) THEN "coding"
       ELSE IF Contains(task_type, KwResearch) \/ Contains(task_type, KwInformation)
       THEN "research"
       ELSE IF Contains(task_type, KwFinance) \/ Contains(task_type, KwStock)
               \/ Contains(task_type, KwInvestment)
       THEN "financial"
       ELSE "research"

\* assign_task up to Agent.assign_task's task_queue.put(task); the results write and
\* the task_assignments write are AssignResults and AssignRecord
BasicAssignCall(c, id, ty, agent_id, co) ==
    LET key == IF agent_id = None THEN determine_best_agent(ty) ELSE agent_id
        a == Lookup(agents, key)
        n == Len(subs) + 1
    IN /\ IF key \notin Keys(agents)
          THEN /\ client' = [client EXCEPT ![c] = AssignReturn([@ EXCEPT !.co = co], None)]
               /\ UNCHANGED <<task_queue, subs>>
          ELSE /\ task_queue' = [task_queue EXCEPT ![a] = Append(@, [id |-> id, n |-> n])]
               /\ client' = [client EXCEPT ![c] =
                       [pc |-> "put", agent |-> a, key |-> key, id |-> id, n |-> n,
                        tid |-> NoThread, args |-> NoArgs, co |-> co]]
               /\ subs' = Append(subs, NewSub(a, id))
       /\ UNCHANGED <<agents, task_assignments, atype, results, running, status,
                      worker_thread, threads, stopped>>

\* a call of assign_task by a client thread
BasicAssignPut(c, id, ty, agent_id) ==
    /\ client[c].pc = "idle"
    /\ Len(subs) < MaxAssign
    /\ BasicAssignCall(c, id, ty, agent_id, NoCollab)

\* the task dict carries an id, or task['id'] = str(uuid.uuid4())
BasicAssign(c) ==
    \E hasId \in BOOLEAN, ty \in BasicTypeInputs, agent_id \in {None} \cup BasicKeys :
        \E id \in IF hasId THEN TaskIds ELSE TaskIds \ UsedIds :
            BasicAssignPut(c, id, ty, agent_id)

\* what a call raises instead of returning
KeyError == [raised |-> "KeyError"]

\* multi_agent.py's get_task_result: self.agents[agent_id] raises for a missing key
basic_get_task_result(id) ==
    IF id \notin DOMAIN task_assignments
    THEN [status |-> "unknown", error |-> "Task not found"]
    ELSE IF task_assignments[id] \notin Keys(agents) THEN KeyError
    ELSE get_result(Lookup(agents, task_assignments[id]), id)

NextBasic ==
    \/ \E c \in Clients, key \in ManagedKeys, a \in NewAgents : CreateAgent(c, key, a)
    \/ \E c \in Clients, key \in ManagedKeys : RemoveAgent(c, key)
    \/ \E c \in Clients : RemoveDel(c)
    \/ \E c \in Clients : JoinTimeout(c)
    \/ \E c \in Clients : BasicAssign(c)
    \/ \E c \in Clients : AssignResults(c)
    \/ \E c \in Clients : AssignRecord(c)
    \/ \E a \in Objs, t \in Slots : WorkerLoop(a, t)
    \/ \E a \in Objs, t \in Slots : WorkerGet(a, t)
    \/ \E a \in Objs, t \in Slots : WorkerMark(a, t)
    \/ \E a \in Objs, t \in Slots : ExecReturn(a, t)
    \/ \E a \in Objs, t \in Slots : ExecRaise(a, t)

SpecBasic == InitBasic /\ [][NextBasic]_vars

(***************************************************************************)
(* collaborative_task of multi_agent.py, called by a client thread of the  *)
(* system __init__ builds, before any other task was assigned: the         *)
(* subtasks are assigned one assign_task call after the other, every       *)
(* get_task_result of the polling loop and of the collecting loop is a     *)
(* step of its own, and the workers run in between, as does a second       *)
(* thread that may call remove_agent at any moment.                        *)
(***************************************************************************)
\* poll rounds the deadline leaves room for: max_wait_time = 300 over time.sleep(1)
MaxPolls == 2

\* the uuid4 values assign_task draws for the subtasks
CollabIds == {"u1", "u2", "u3"}

\* a second thread, which calls remove_agent while the first is in collaborative_task,
\* and the agent ids it removes
Removers == {"c2"}
RemovedKeys == {"financial"}

InitCollab == InitBasicWith(Clients \cup Removers)

KwReport == <<"r","e","p","o","r","t">>
KwProject == <<"p","r","o","j","e","c","t">>

\* a subtask dict: its 'type', and no 'id'
Subtask(ty) == [ty |-> ty, id |-> None]

\* _break_down_task: three research subtasks for a research report, three code
\* subtasks for a code project, one research subtask for anything else
break_down_task(ty) ==
    LET task_type == Lower(ty)
    IN IF Contains(task_type, KwResearch) /\ Contains(task_type, KwReport)
       THEN <<Subtask(KwResearch), Subtask(KwResearch), Subtask(KwResearch)>>
       ELSE IF Contains(task_type, KwCode) /\ Contains(task_type, KwProject)
       THEN <<Subtask(KwCode), Subtask(KwCode), Subtask(KwCode)>>
       ELSE <<Subtask(KwResearch)>>

\* values of main_task['type'] the callers of the model use
MainTypeInputs ==
    { <<>>,
      KwResearch \o <<" ">> \o KwReport,
      <<"C">> \o Tail(KwCode) \o <<" ">> \o KwProject }

\* subtask lists the callers of the model pass
SubtaskInputs == { <<>>, <<Subtask(KwCode), Subtask(KwStock)>> }

\* the 'result' values of the completed snapshots, in the order of the dict's keys
RECURSIVE CompletedResults(_, _, _)
CompletedResults(ids, res, seen) ==
    IF ids = <<>> THEN <<>>
    ELSE LET id == Head(ids)
             rest == CompletedResults(Tail(ids), res, seen \cup {id})
         IN IF id \notin seen /\ res[id].status = "completed" /\ "result" \in DOMAIN res[id]
            THEN <<res[id].result>> \o rest
            ELSE rest

\* mutant: a combination that reports 'completed' with no completed subtask
combine_results_always(ids, res) ==
    [status |-> "completed", results |-> CompletedResults(ids, res, {})]

\* _combine_results
combine_results(ids, res) ==
    LET completed_results == CompletedResults(ids, res, {})
    IN IF completed_results = <<>>
       THEN [status |-> "failed", error |-> "No subtasks completed successfully"]
       ELSE [status |-> "completed", results |-> completed_results]

\* the assign_task calls made for the subtasks of the call client c is in
CollabSubs(c) ==
    { k \in 1..Len(subs) :
        \E i \in 1..Len(client[c].co.subtask_ids) : client[c].co.subtask_ids[i] = subs[k].id }

\* every subtask of the call was assigned and its executor has returned or raised
AllFinished(c) ==
    /\ Cardinality(CollabSubs(c)) = client[c].co.n
    /\ \A k \in CollabSubs(c) : subs[k].st = "done"

\* every executor of the call's subtasks has returned a result
AllSucceeded(c) ==
    /\ Cardinality(CollabSubs(c)) = client[c].co.n
    /\ \A k \in CollabSubs(c) : subs[k].ok

\* collaborative_task(main_task, subtasks): lines 418-420; the call is made while no
\* task was assigned yet, with no more subtasks than there are ids to draw
CollabCall(c, given, ty, list) ==
    LET subtasks == IF given THEN list ELSE break_down_task(ty)
    IN /\ client[c].pc = "idle"
       /\ subs = <<>>
       /\ Len(subtasks) <= Cardinality(CollabIds)
       /\ client' = [client EXCEPT ![c] =
               [IdleClient EXCEPT !.pc = "co_assign",
                   !.co = [NoCollab EXCEPT !.on = TRUE, !.subtasks = subtasks,
                                           !.n = Len(subtasks)]]]
       /\ UNCHANGED <<agents, task_assignments, atype, task_queue, results, running,
                      status, worker_thread, threads, subs, stopped>>

\* lines 424-425: task_id = self.assign_task(subtask), up to the queue's put
CollabAssign(c) ==
    /\ client[c].pc = "co_assign"
    /\ client[c].co.subtasks # <<>>
    /\ LET subtask == Head(client[c].co.subtasks)
       IN \E id \in IF subtask.id = None THEN CollabIds \ UsedIds ELSE {subtask.id} :
            BasicAssignCall(c, id, subtask.ty, None, client[c].co)

\* lines 430-432: the subtasks are assigned; all_completed = False, the clock starts
CollabStartWait(c) ==
    /\ client[c].pc = "co_assign"
    /\ client[c].co.subtasks = <<>>
    /\ client' = [client EXCEPT ![c].pc = "co_while"]
    /\ UNCHANGED <<agents, task_assignments, atype, task_queue, results, running,
                   status, worker_thread, threads, subs, stopped>>

\* line 434: while not all_completed and time.time() - start_time < max_wait_time
CollabWhile(c) ==
    /\ client[c].pc = "co_while"
    /\ LET co == client[c].co
       IN client' = [client EXCEPT ![c] =
            IF ~co.all_completed /\ co.polls < MaxPolls
            THEN [@ EXCEPT !.pc = "co_poll", !.co.all_completed = TRUE, !.co.i = 1,
                           !.co.ready = AllFinished(c)]
            ELSE [@ EXCEPT !.pc = "co_collect", !.co.i = 1]]
    /\ UNCHANGED <<agents, task_assignments, atype, task_queue, results, running,
                   status, worker_thread, threads, subs, stopped>>

\* lines 437-443: one get_task_result of the polling loop; a snapshot that is not
\* terminal ends the round with time.sleep(1)
CollabPoll(c) ==
    /\ client[c].pc = "co_poll"
    /\ LET co == client[c].co
           result == basic_get_task_result(co.subtask_ids[co.i])
       IN client' = [client EXCEPT ![c] =
            IF co.i > Len(co.subtask_ids) THEN [@ EXCEPT !.pc = "co_while"]
            ELSE IF result = KeyError THEN [@ EXCEPT !.pc = "co_raised"]
            ELSE IF result.status \notin {"completed", "failed"}
            THEN [@ EXCEPT !.pc = "co_while", !.co.all_completed = FALSE,
                           !.co.polls = @ + 1]
            ELSE [@ EXCEPT !.co.i = @ + 1]]
    /\ UNCHANGED <<agents, task_assignments, atype, task_queue, results, running,
                   status, worker_thread, threads, subs, stopped>>

\* lines 446-459: one get_task_result of the collecting loop, and after the last the
\* combination and the return value
CollabCollect(c) ==
    /\ client[c].pc = "co_collect"
    /\ LET co == client[c].co
           result == basic_get_task_result(co.subtask_ids[co.i])
       IN client' = [client EXCEPT ![c] =
            IF co.i > Len(co.subtask_ids)
            THEN [@ EXCEPT !.pc = "co_done",
                    !.co.ret = [subtasks |-> co.subtask_results,
                                combined_result |->
                                    combine_results(co.subtask_ids, co.subtask_results),
                                status |-> IF co.all_completed THEN "completed"
                                           ELSE "partial"]]
            ELSE IF result = KeyError THEN [@ EXCEPT !.pc = "co_raised"]
            ELSE [@ EXCEPT !.co.i = @ + 1,
                           !.co.subtask_results = Put(@, co.subtask_ids[co.i], result)]]
    /\ UNCHANGED <<agents, task_assignments, atype, task_queue, results, running,
                   status, worker_thread, threads, subs, stopped>>

\* the caller has the return value, or the exception
CollabReturn(c) ==
    /\ client[c].pc \in {"co_done", "co_raised"}
    /\ client' = [client EXCEPT ![c] = IdleClient]
    /\ UNCHANGED <<agents, task_assignments, atype, task_queue, results, running,
                   status, worker_thread, threads, subs, stopped>>

NextCollab ==
    \/ \E c \in Clients, ty \in MainTypeInputs : CollabCall(c, FALSE, ty, <<>>)
    \/ \E c \in Clients, list \in SubtaskInputs : CollabCall(c, TRUE, <<>>, list)
    \/ \E c \in Clients : CollabAssign(c)
    \/ \E c \in Clients : CollabStartWait(c)
    \/ \E c \in Clients : AssignResults(c)
    \/ \E c \in Clients : AssignRecord(c)
    \/ \E c \in Clients : CollabWhile(c)
    \/ \E c \in Clients : CollabPoll(c)
    \/ \E c \in Clients : CollabCollect(c)
    \/ \E c \in Clients : CollabReturn(c)
    \/ \E c \in Removers, key \in RemovedKeys : RemoveAgent(c, key)
    \/ \E c \in Removers : RemoveDel(c)
    \/ \E c \in Removers : JoinTimeout(c)
    \/ \E a \in Objs, t \in Slots : WorkerLoop(a, t)
    \/ \E a \in Objs, t \in Slots : WorkerGet(a, t)
    \/ \E a \in Objs, t \in Slots : WorkerMark(a, t)
    \/ \E a \in Objs, t \in Slots : ExecReturn(a, t)
    \/ \E a \in Objs, t \in Slots : ExecRaise(a, t)

SpecCollab == InitCollab /\ [][NextCollab]_vars

(***************************************************************************)
(* Routing of enhanced_multi_agent.py's assign_task over registries and    *)
(* arguments: the registry (one to three agents of any of the types, or    *)
(* none) is drawn by the initial state and stays fixed; every call keeps   *)
(* its arguments in the caller's record.                                   *)
(***************************************************************************)
\* agent objects, in the order register_agent is called for them
RouteObjs == <<"r1", "r2", "r3">>

\* the values of agent.type of the registered agents
RouteTypes == {"research", "coding", "financial", "technical_analysis"}

\* values of task['task_type']
RouteTaskTypes ==
    { <<>>,
      KwCode,
      <<"g","e","n","e","r","a","l">> \o <<" ">> \o KwResearch,
      KwTechnical,
      KwFinancial }

\* values of the agent_type argument (fundamental_analysis: a type no agent has)
RouteHints == {None, "coding", "fundamental_analysis"}

\* values of the agent_id argument (r2 is registered in some registries only)
RouteIds == {None, "r2"}

\* the first k agents constructed with the types ty and registered, in this order
InitRoute ==
    \E k \in 0..Len(RouteObjs) : \E ty \in [1..k -> RouteTypes] :
        LET S == { RouteObjs[i] : i \in 1..Len(RouteObjs) }
        IN /\ agents = [i \in 1..k |-> [key |-> RouteObjs[i], agent |-> RouteObjs[i]]]
           /\ task_assignments = <<>>
           /\ atype = [a \in S |->
                   IF \E i \in 1..k : RouteObjs[i] = a
                   THEN ty[CHOOSE i \in 1..k : RouteObjs[i] = a] ELSE "research"]
           /\ task_queue = [a \in S |-> <<>>]
           /\ results = [a \in S |-> <<>>]
           /\ running = [a \in S |-> FALSE]
           /\ status = [a \in S |-> "initialized"]
           /\ worker_thread = [a \in S |-> NoThread]
           /\ threads = [a \in S |-> [t \in Slots |-> DeadThread]]
           /\ client = [c \in Clients |-> IdleClient]
           /\ subs = <<>>
           /\ stopped = [a \in S |-> FALSE]

\* assign_task(task, agent_type, agent_id), the arguments kept
RoutedAssign(c) ==
    \E had_id \in BOOLEAN, task_type \in RouteTaskTypes, symbol \in BOOLEAN,
       agent_type \in RouteHints, agent_id \in RouteIds :
        \E id \in IF had_id THEN TaskIds ELSE TaskIds \ UsedIds :
            /\ Len(subs) < MaxRouted
            /\ AssignCall(c, id, task_type, symbol, agent_type, agent_id,
                          [had_id |-> had_id, task_type |-> task_type, symbol |-> symbol,
                           agent_type |-> agent_type, agent_id |-> agent_id])

NextRoute ==
    \/ \E c \in Clients : RoutedAssign(c)
    \/ \E c \in Clients : AssignFail(c)
    \/ \E c \in Clients : AssignResults(c)
    \/ \E c \in Clients : AssignRecord(c)

SpecRoute == InitRoute /\ [][NextRoute]_vars

(***************************************************************************)
(* Properties.                                                             *)
(***************************************************************************)
Terminal(s) == s.status \in {"completed", "failed"}

\* the ids some assign_task call has returned
ReturnedIds == { subs[k].id : k \in Returned }

\* nothing is in flight: no call is in progress and every queued entry was executed
AllExecuted ==
    /\ \A c \in Clients : client[c].pc = "idle"
    /\ \A k \in 1..Len(subs) : subs[k].st = "done"

\* C1: FIFO per agent. If A's submit returned before B's submit began and both went
\* to the same agent, B is not 'processing' (or beyond) before A is completed or failed.
C1_FifoPerAgent ==
    \A b \in 1..Len(subs) :
        subs[b].st \in {"processing", "done"} =>
            \A a \in subs[b].before :
                subs[a].agent = subs[b].agent => subs[a].st = "done"

\* C2: terminal snapshots are stable. Once get_task_result(id) shows 'completed' or
\* 'failed', every later get_task_result(id) returns that same snapshot.
C2_TerminalStable ==
    [][\A id \in TaskIds :
            Terminal(get_task_result(id)) => get_task_result(id)' = get_task_result(id)]_vars

\* C3: eventual termination, in the form a finite run decides. When no call is in
\* progress and the executor has returned or raised for every entry ever queued (so
\* the worker loops have nothing left to do), get_task_result reports 'completed'
\* or 'failed' for every id an assign_task call returned.
C3_AllExecutedAllTerminal ==
    AllExecuted => \A id \in ReturnedIds : Terminal(get_task_result(id))

\* C3, as stated: every id an assign_task call has returned eventually reads
\* 'completed' or 'failed' and reads so forever after (under the fairness of SpecLive).
C3_EventuallyTerminalForever ==
    \A id \in TaskIds :
        [](id \in ReturnedIds => <>[]Terminal(get_task_result(id)))

\* C4: at most one worker loop per agent is alive at any time, after any sequence
\* of start() and stop() calls.
C4_AtMostOneWorker ==
    \A a \in Objs : Cardinality(LiveSlots(a)) <= 1

\* C5: stop semantics. From the return of stop() until the next start(), no task of
\* the agent becomes 'processing' and no entry leaves the agent's queue.
C5_StopSemantics ==
    [][\A a \in Objs :
            (stopped[a] /\ stopped'[a]) =>
                /\ \A k \in 1..Len(subs) :
                        (subs[k].agent = a /\ subs[k].st # "processing")
                            => subs'[k].st # "processing"
                /\ Len(task_queue'[a]) >= Len(task_queue[a])
                /\ \A i \in 1..Len(task_queue[a]) : task_queue'[a][i] = task_queue[a][i]]_vars

\* C6: assignment permanence. Once task_assignments[id] is set, no later operation
\* changes the agent the id maps to.
C6_AssignmentPermanent ==
    [][\A id \in DOMAIN task_assignments :
            /\ id \in DOMAIN task_assignments'
            /\ task_assignments'[id] = task_assignments[id]]_vars

\* the registered agent objects whose results dict holds the id
Holders(id) == { a \in { agents[i].agent : i \in 1..Len(agents) } : id \in DOMAIN results[a] }

\* C7: registry/result consistency. Every id in task_assignments has an entry in the
\* results dict of exactly one registered agent, the one task_assignments points to.
C7_RegistryResultConsistent ==
    \A id \in DOMAIN task_assignments :
        /\ task_assignments[id] \in Keys(agents)
        /\ Holders(id) = { Lookup(agents, task_assignments[id]) }

\* C8: result/error exclusivity. A 'completed' snapshot carries a result and no
\* error, a 'failed' one an error and no result, a 'pending' or 'processing' one
\* neither.
C8_ResultErrorExclusive ==
    \A a \in Objs : \A id \in DOMAIN results[a] :
        LET s == results[a][id]
            hasResult == "result" \in DOMAIN s
            hasError == "error" \in DOMAIN s
        IN /\ s.status \in {"pending", "processing", "completed", "failed"}
           /\ s.status = "completed" => (hasResult /\ ~hasError)
           /\ s.status = "failed" => (hasError /\ ~hasResult)
           /\ s.status \in {"pending", "processing"} => (~hasResult /\ ~hasError)

\* C8 witness: an agent's results dict holds a completed and a failed snapshot.
C8_Witness ==
    \E a \in Objs : \E i, j \in DOMAIN results[a] :
        /\ results[a][i].status = "completed"
        /\ results[a][j].status = "failed"

\* C9: unknown exactly when never assigned. get_task_result(id) is 'unknown' for
\* every id no assign_task call has returned, and a task snapshot (pending,
\* processing, completed or failed) for every id some call has returned.
C9_UnknownIffNeverAssigned ==
    \A id \in TaskIds :
        IF id \in ReturnedIds
        THEN get_task_result(id).status \in {"pending", "processing", "completed", "failed"}
        ELSE get_task_result(id).status = "unknown"

\* C9 witness: one id was returned and reads 'processing', while another id, already
\* queued and in an agent's results dict by a call that has not returned, reads 'unknown'.
C9_Witness ==
    \E id, other \in TaskIds :
        /\ id \in ReturnedIds /\ get_task_result(id).status = "processing"
        /\ other \notin ReturnedIds
        /\ \E a \in Objs : other \in DOMAIN results[a]
        /\ get_task_result(other).status = "unknown"

\* C10: progress monotonicity. While a task's snapshot stays 'processing', its
\* progress never decreases.
C10_ProgressMonotone ==
    [][\A a \in Objs : \A id \in DOMAIN results[a] :
            (results[a][id].status = "processing" /\ results'[a][id].status = "processing")
                => results'[a][id].progress >= results[a][id].progress]_vars

\* C11: progress 100 iff completed. A snapshot has progress exactly 100 if and only
\* if its status is 'completed'.
C11_Progress100IffCompleted ==
    \A a \in Objs : \A id \in DOMAIN results[a] :
        LET s == results[a][id]
        IN ("progress" \in DOMAIN s /\ s.progress = 100) <=> (s.status = "completed")

\* client c is inside an assign_task call that has put the task on an agent's queue
Queued(c) == client[c].pc \in {"put", "rec"}

\* an agent of the type is registered
Registered(ty) == \E i \in 1..Len(agents) : atype[agents[i].agent] = ty

\* the task of c's call is the newest entry of the queue of agent a
QueuedOn(c, a) ==
    /\ task_queue[a] # <<>>
    /\ task_queue[a][Len(task_queue[a])] = [id |-> client[c].id, n |-> client[c].n]

\* C12: routing by explicit kind. A call with agent_type = K and no agent_id, while an
\* agent of type K is registered, queues the task on the earliest registered agent of
\* type K.
C12_RoutingByKind ==
    \A c \in Clients :
        LET K == client[c].args.agent_type
        IN (/\ client[c].pc \in {"put", "rec", "none"}
            /\ client[c].args.agent_id = None
            /\ K # None
            /\ Registered(K))
           => /\ Queued(c)
              /\ \E i \in 1..Len(agents) :
                    /\ agents[i].agent = client[c].agent
                    /\ atype[agents[i].agent] = K
                    /\ \A j \in 1..(i - 1) : atype[agents[j].agent] # K
              /\ QueuedOn(c, client[c].agent)

\* C12 witness: a call with agent_type 'coding' while the second and the third
\* registered agent are coding agents and the first is not; the task is on the
\* second agent's queue.
C12_Witness ==
    \E c \in Clients :
        /\ Queued(c)
        /\ client[c].args.agent_id = None
        /\ client[c].args.agent_type = "coding"
        /\ Len(agents) = 3
        /\ atype[agents[1].agent] # "coding"
        /\ atype[agents[2].agent] = "coding"
        /\ atype[agents[3].agent] = "coding"
        /\ QueuedOn(c, agents[2].agent)

\* the target of c's call by the order: (a) a known agent_id, else (b) the kind hint
\* when an agent of that kind is registered, else (c) keyword inference, else (d) the
\* first registered agent
PriorityTarget(c) ==
    LET args == client[c].args
    IN IF args.agent_id # None /\ args.agent_id \in Keys(agents)
       THEN Lookup(agents, args.agent_id)
       ELSE IF args.agent_type # None /\ Registered(args.agent_type)
       THEN get_agent_by_type(agents, args.agent_type)
       ELSE IF InferAgent(agents, args.task_type, args.symbol) # None
       THEN InferAgent(agents, args.task_type, args.symbol)
       ELSE agents[1].agent

\* C13: routing priority order. The task is queued on the agent that (a) agent_id,
\* else (b) the kind hint, else (c) keyword inference, else (d) the first registered
\* agent selects; a hint naming a kind without agent leaves the choice to keyword
\* inference.
C13_RoutingPriority ==
    \A c \in Clients : Queued(c) => client[c].agent = PriorityTarget(c)

\* no routing hint: neither agent_type nor agent_id
NoHint(c) == client[c].args.agent_type = None /\ client[c].args.agent_id = None

\* C14: keyword routing to the coding agent. With a coding and a research agent
\* registered, a task whose kind contains 'code', assigned with no hint, is queued on
\* a coding agent, whatever else the task carries.
C14_CodeToCoding ==
    \A c \in Clients :
        (/\ Queued(c)
         /\ NoHint(c)
         /\ Contains(client[c].args.task_type, KwCode)
         /\ Registered("coding")
         /\ Registered("research"))
        => atype[client[c].agent] = "coding"

\* C15: specialized kinds take precedence. With a financial and a technical_analysis
\* agent registered, a task whose kind contains 'technical', assigned with no hint, is
\* queued on the technical_analysis agent, also when the task carries a symbol.
C15_SpecializedFirst ==
    \A c \in Clients :
        (/\ Queued(c)
         /\ NoHint(c)
         /\ Contains(client[c].args.task_type, KwTechnical)
         /\ Registered("financial")
         /\ Registered("technical_analysis"))
        => atype[client[c].agent] = "technical_analysis"

\* no routing rule selects an agent for c's call: the agent_id is not a registered
\* one, no agent of the hinted kind is registered, and keyword inference finds none
NoRuleSelects(c) ==
    LET args == client[c].args
    IN /\ args.agent_id = None \/ args.agent_id \notin Keys(agents)
       /\ args.agent_type = None \/ ~Registered(args.agent_type)
       /\ InferAgent(agents, args.task_type, args.symbol) = None

\* C16: fallback instead of rejection. With at least one agent registered assign_task
\* does not fail; when no routing rule selects an agent the task is queued on the
\* first registered agent and the call goes on to return the task id.
C16_FallbackFirstAgent ==
    \A c \in Clients :
        /\ client[c].pc = "none" => agents = <<>>
        /\ (Queued(c) /\ NoRuleSelects(c))
            => /\ client[c].agent = agents[1].agent
               /\ QueuedOn(c, agents[1].agent)
               /\ client[c].id \in TaskIds

\* C16 witness: three agents registered, a task with an empty kind and no hint is
\* on the first agent's queue and the call is about to return its id.
C16_Witness ==
    \E c \in Clients :
        /\ client[c].pc = "rec"
        /\ NoHint(c)
        /\ client[c].args.task_type = <<>>
        /\ ~client[c].args.symbol
        /\ NoRuleSelects(c)
        /\ Len(agents) = 3
        /\ QueuedOn(c, agents[1].agent)

\* C17: routing failure leaves no trace. A call made while no agent is registered
\* returns no id and changes neither task_assignments nor a queue nor a results dict,
\* and no task id is created: a task dict that had no 'id' still has none.
C17_FailureLeavesNoTrace ==
    [][\A c \in Clients :
            (client[c].pc = "idle" /\ client'[c].pc \in {"put", "none"} /\ agents = <<>>)
            => /\ client'[c].pc = "none"
               /\ UNCHANGED <<task_assignments, task_queue, results>>
               /\ client'[c].args.had_id \/ client'[c].id = None]_vars

\* the part of C17 about the system's own state
C17_SystemUnchanged ==
    [][\A c \in Clients :
            (client[c].pc = "idle" /\ client'[c].pc \in {"put", "none"} /\ agents = <<>>)
            => /\ client'[c].pc = "none"
               /\ UNCHANGED <<task_assignments, task_queue, results>>]_vars

\* the tasks of the registered agents whose snapshot is neither 'completed' nor 'failed'
NonTerminalTasks ==
    { x \in { agents[i].agent : i \in 1..Len(agents) } \X TaskIds :
        x[2] \in DOMAIN results[x[1]] /\ ~Terminal(results[x[1]][x[2]]) }

\* C18: system-wide active task count. When no call is in progress,
\* get_system_status()['active_tasks'] is the number of tasks, over all agents, whose
\* status is not 'completed' or 'failed', and 'agent_count' is the number of
\* registered agents.
C18_ActiveTaskCount ==
    (\A c \in Clients : client[c].pc = "idle")
    => /\ get_system_status.active_tasks = Cardinality(NonTerminalTasks)
       /\ get_system_status.agent_count = Cardinality(Keys(agents))

\* C19: assignment record. When assign_task(task, agent_type=T), called with an agent
\* of type T registered, returns, it returns a task id, and the system's record of
\* the task shows status 'assigned' and an owning agent of type T.
C19_AssignmentRecord ==
    [][\A c \in Clients :
            (/\ client[c].pc = "rec" /\ client'[c].pc = "idle"
             /\ client[c].args.agent_type # None
             /\ client[c].args.agent_id = None
             /\ Registered(client[c].args.agent_type))
            => /\ client[c].id \in TaskIds
               /\ \A id \in TaskIds :
                    id = client[c].id => get_task_result(id)'.status = "assigned"
               /\ client[c].id \in DOMAIN task_assignments'
               /\ atype[Lookup(agents, task_assignments'[client[c].id])]
                      = client[c].args.agent_type]_vars


\* C20: a collaborative_task call whose N >= 1 subtasks were all assigned and whose
\* executors had all returned a result when its last poll round began returns status
\* 'completed', N subtask snapshots that are all 'completed', and a combined result
\* with status 'completed' that holds N subtask results
C20_CollaborativeSuccess ==
    \A c \in Clients :
        LET co == client[c].co
        IN (client[c].pc = "co_done" /\ co.n >= 1 /\ co.ready /\ AllSucceeded(c)) =>
            /\ co.ret.status = "completed"
            /\ Cardinality(DOMAIN co.ret.subtasks) = co.n
            /\ \A id \in DOMAIN co.ret.subtasks : co.ret.subtasks[id].status = "completed"
            /\ co.ret.combined_result.status = "completed"
            /\ Len(co.ret.combined_result.results) = co.n

\* a call with three subtasks has returned 'completed' with three completed snapshots
C20_Witness ==
    \E c \in Clients :
        /\ client[c].pc = "co_done" /\ client[c].co.n = 3 /\ client[c].co.ready
        /\ AllSucceeded(c)
        /\ client[c].co.ret.status = "completed"
        /\ Len(client[c].co.ret.combined_result.results) = 3


\* the subtasks of the call client c is in whose executor raised
RaisedSubs(c) == { k \in CollabSubs(c) : subs[k].st = "done" /\ ~subs[k].ok }

\* C21: a collaborative_task call with N > 1 subtasks, all assigned and all executed
\* when its last poll round began, exactly one of them by an executor that raised,
\* returns status 'partial', a 'failed' snapshot with an error for that subtask and
\* 'completed' snapshots for the others
C21_PartialOnFailure ==
    \A c \in Clients :
        LET co == client[c].co
        IN (/\ client[c].pc = "co_done" /\ co.n > 1 /\ co.ready /\ AllFinished(c)
            /\ Cardinality(RaisedSubs(c)) = 1) =>
            /\ co.ret.status = "partial"
            /\ \A k \in CollabSubs(c) :
                    /\ subs[k].id \in DOMAIN co.ret.subtasks
                    /\ LET snap == co.ret.subtasks[subs[k].id]
                       IN IF k \in RaisedSubs(c)
                          THEN snap.status = "failed" /\ "error" \in DOMAIN snap
                          ELSE snap.status = "completed"

\* the snapshots of C21 are as it says, and the status returned is 'completed'
C21_SnapshotsButCompleted ==
    \A c \in Clients :
        LET co == client[c].co
        IN (/\ client[c].pc = "co_done" /\ co.n > 1 /\ co.ready /\ AllFinished(c)
            /\ Cardinality(RaisedSubs(c)) = 1
            /\ \A k \in CollabSubs(c) : subs[k].id \in DOMAIN co.ret.subtasks
                    /\ co.ret.subtasks[subs[k].id].status
                            = IF k \in RaisedSubs(c) THEN "failed" ELSE "completed")
            => co.ret.status = "completed"


\* the entries of the map a finished call returned that stand for a subtask that was
\* not assigned: 'failed' entries under a key that is none of subtask_ids
UnassignedEntries(c) ==
    { id \in DOMAIN client[c].co.ret.subtasks :
        /\ \A i \in 1..Len(client[c].co.subtask_ids) : client[c].co.subtask_ids[i] # id
        /\ client[c].co.ret.subtasks[id].status = "failed" }

\* C22: the per-subtask results collaborative_task returns hold a 'failed' entry for
\* every subtask whose assign_task returned None, so that no subtask is missing
C22_UnassignableReported ==
    \A c \in Clients :
        client[c].pc = "co_done" =>
            /\ Cardinality(UnassignedEntries(c))
                    = client[c].co.n - Len(client[c].co.subtask_ids)
            /\ Cardinality(DOMAIN client[c].co.ret.subtasks) = client[c].co.n


\* C23: when none of the snapshots a collaborative_task call returns is 'completed',
\* its combined result has status 'failed' with the error 'No subtasks completed
\* successfully'; a combined result with status 'completed' holds at least one result
C23_NoEmptySuccess ==
    \A c \in Clients :
        LET ret == client[c].co.ret
        IN client[c].pc = "co_done" =>
            /\ (\A id \in DOMAIN ret.subtasks : ret.subtasks[id].status # "completed") =>
                    /\ ret.combined_result.status = "failed"
                    /\ ret.combined_result.error = "No subtasks completed successfully"
            /\ ret.combined_result.status = "completed" =>
                    Len(ret.combined_result.results) >= 1

\* a call with two subtasks has returned, both snapshots are 'failed', and so is the
\* combined result
C23_Witness ==
    \E c \in Clients :
        /\ client[c].pc = "co_done"
        /\ Cardinality(DOMAIN client[c].co.ret.subtasks) = 2
        /\ \A id \in DOMAIN client[c].co.ret.subtasks :
                client[c].co.ret.subtasks[id].status = "failed"
        /\ client[c].co.ret.combined_result.status = "failed"


\* the polling loop of a call sleeps at most MaxPolls times, and is left only when a
\* round found every snapshot terminal or the deadline has passed
C24_PollsBounded ==
    \A c \in Clients :
        /\ client[c].co.polls <= MaxPolls
        /\ client[c].pc \in {"co_collect", "co_done"} =>
                client[c].co.all_completed \/ client[c].co.polls = MaxPolls

\* C24: a collaborative_task call never ends without returning, whatever the executors
\* and the owning agents do: it returns after at most the deadline's poll rounds,
\* and leaves the polling loop as soon as a round found every snapshot terminal
C24_BoundedWait ==
    /\ C24_PollsBounded
    /\ \A c \in Clients : client[c].pc # "co_raised"


\* the step in which the executor thread t of agent a runs raises
RaiseStep(a, t) ==
    /\ threads[a][t].pc = "exec"
    /\ threads'[a][t].pc # "exec"
    /\ ~subs'[threads[a][t].task.n].ok

\* the entries queued on the agent of entry k before it whose executor raised
RaisedBefore(k) ==
    { j \in 1..(k - 1) : subs[j].agent = subs[k].agent /\ subs[j].st = "done" /\ ~subs[j].ok }

\* C25: the step in which an executor raises writes the task's 'failed' snapshot with
\* the error, leaves the worker in its loop, and changes neither the registry, the
\* assignments, the agent's queue and flags nor anything of another agent; and from
\* some moment on every entry queued behind a task whose executor raised is executed
\* (both sides are stable: an entry once executed, or behind a raise, stays so)
C25_FailureIsolated ==
    /\ [][\A a \in AgentObjs, t \in Slots :
            RaiseStep(a, t) =>
                /\ threads[a][t].task.id \in DOMAIN results'[a]
                /\ results'[a][threads[a][t].task.id].status = "failed"
                /\ "error" \in DOMAIN results'[a][threads[a][t].task.id]
                /\ threads'[a][t].pc = "loop"
                /\ agents' = agents /\ task_assignments' = task_assignments
                /\ task_queue' = task_queue /\ running' = running /\ status' = status
                /\ \A b \in AgentObjs \ {a} :
                        results'[b] = results[b] /\ threads'[b] = threads[b]]_vars
    /\ <>[](\A k \in 1..Len(subs) : RaisedBefore(k) # {} => subs[k].st = "done")

\* an executor raised with a second task behind it in the same agent's queue, the
\* second was executed, and the first reads 'failed' and the second 'completed'
C25_Witness ==
    /\ Len(subs) = 2 /\ RaisedBefore(2) # {} /\ subs[2].st = "done" /\ subs[2].ok
    /\ subs[1].id # subs[2].id
    /\ get_result(subs[1].agent, subs[1].id).status = "failed"
    /\ get_result(subs[2].agent, subs[2].id).status = "completed"


\* C26: when an executor raises while its task's snapshot holds a progress p reported by
\* update_progress, the 'failed' snapshot written for the task has progress p
C26_ProgressSurvivesFailure ==
    [][\A a \in Objs, t \in Slots :
            (/\ RaiseStep(a, t)
             /\ threads[a][t].task.id \in DOMAIN results[a]
             /\ "progress" \in DOMAIN results[a][threads[a][t].task.id]
             /\ results[a][threads[a][t].task.id].progress \in ProgressInputs)
            => /\ results'[a][threads[a][t].task.id].status = "failed"
               /\ "progress" \in DOMAIN results'[a][threads[a][t].task.id]
               /\ results'[a][threads[a][t].task.id].progress
                      = results[a][threads[a][t].task.id].progress]_vars


\* the worker threads of agent a that hold a task they took from the queue
Executing(a) == { t \in Slots : threads[a][t].pc \in {"mark", "exec"} }

\* the assign_task calls that queued an entry on agent a that was not executed yet
Unfinished(a) == { k \in 1..Len(subs) : subs[k].agent = a /\ subs[k].st # "done" }

\* C27: while no assign_task call is in progress, and the tasks submitted had ids of
\* their own, get_status()['active_tasks'] of an agent is the number of tasks submitted
\* to it and not yet executed, which is its 'queue_size' plus the number of tasks its
\* workers are executing
C27_AgentActiveTasks ==
    (/\ \A c \in Clients : client[c].pc = "idle"
     /\ \A j, k \in 1..Len(subs) : subs[j].id = subs[k].id => j = k) =>
        \A a \in Objs :
            /\ get_status(a).active_tasks = Cardinality(Unfinished(a))
            /\ get_status(a).active_tasks
                    = get_status(a).queue_size + Cardinality(Executing(a))


\* where the entry queued by assign_task call k is: its places in the agents' queues,
\* and the worker threads that hold it
InQueue(k) ==
    { <<a, i>> \in Objs \X (1..Len(subs)) :
        i <= Len(task_queue[a]) /\ task_queue[a][i].n = k }

HeldBy(k) ==
    { <<a, t>> \in Objs \X Slots :
        threads[a][t].pc \in {"mark", "exec"} /\ threads[a][t].task.n = k }

\* C28: every entry put on an agent's queue is in exactly one place: once in that
\* queue, or held by one worker thread that executes it, or executed
C28_TaskConservation ==
    \A k \in 1..Len(subs) :
        /\ Cardinality(InQueue(k)) + Cardinality(HeldBy(k))
                + (IF subs[k].st = "done" THEN 1 ELSE 0) = 1
        /\ \A q \in InQueue(k) : q[1] = subs[k].agent
        /\ \A h \in HeldBy(k) : h[1] = subs[k].agent

\* after a stop() and a second start() two worker threads of the agent are alive; one
\* entry is held by a worker and another is executed
C28_Witness ==
    /\ Len(subs) = 2
    /\ \E a \in Objs : stopped[a] /\ Cardinality(LiveSlots(a)) = 2
    /\ HeldBy(1) # {} /\ subs[2].st = "done"


\* C29: in the basic MultiAgentSystem get_task_result(id) returns a dictionary with a
\* 'status' for every id, also when the agent the id was assigned to was removed or
\* replaced
C29_LookupNeverRaises ==
    \A id \in TaskIds : "status" \in DOMAIN basic_get_task_result(id)


\* C30: the status collaborative_task returns is 'completed' exactly when every
\* snapshot of the 'subtasks' map it returns is 'completed' or 'failed'
C30_StatusAgreesWithSnapshots ==
    \A c \in Clients :
        LET ret == client[c].co.ret
        IN client[c].pc = "co_done" =>
            (ret.status = "completed"
                <=> \A id \in DOMAIN ret.subtasks : Terminal(ret.subtasks[id]))

\* one half of C30: a call that returns 'completed' returns terminal snapshots only
C30_CompletedImpliesTerminal ==
    \A c \in Clients :
        LET ret == client[c].co.ret
        IN (client[c].pc = "co_done" /\ ret.status = "completed") =>
            \A id \in DOMAIN ret.subtasks : Terminal(ret.subtasks[id])

============================================================================
